---- MODULE Spec2Model ----
(***************************************************************************)
(* SDAPro (src/SDAPro.py): a Streamlit page with two pipelines over an     *)
(* uploaded workbook.  "Sales Data Analysis" runs process_all_sheets,      *)
(* "Stock Control" runs calculate_SDS (which calls                         *)
(* calculate_required_quantity).  A table is a record                      *)
(* [name, columns, rows]; a row is a function from column names to cells.  *)
(*                                                                         *)
(* Floats are modelled exactly where the code's results are decimal:       *)
(*   a percent "12.34%" is [k |-> "num", v |-> 1234]   (hundredths),       *)
(*   a 1-decimal value 2.5 is [k |-> "num", v |-> 25]  (tenths),           *)
(*   a quotient n/d is [k |-> "num", n |-> n, d |-> d] with d > 0,         *)
(* and inf, -inf, nan are the records with k = "inf", "-inf", "nan".       *)
(***************************************************************************)
EXTENDS Integers, Sequences, FiniteSets, TLC

VARIABLES selected_option, file, sales_duration, storage_duration, shown, ops

vars == <<selected_option, file, sales_duration, storage_duration, shown, ops>>

----------------------------------------------------------------------------
(* Bounds of the input domains.                                            *)

MaxStockRows == 4
MaxMetricRows == 1
MaxSalesRows == 2

----------------------------------------------------------------------------
(* Generic helpers.                                                        *)

Range(s) == {s[i] : i \in DOMAIN s}

RECURSIVE SumSeq(_)
SumSeq(s) == IF s = <<>> THEN 0 ELSE s[1] + SumSeq(Tail(s))

Abs(n) == IF n < 0 THEN -n ELSE n

Sign(n) == IF n < 0 THEN -1 ELSE IF n > 0 THEN 1 ELSE 0

SeqsUpTo(S, n) == UNION {[1..k -> S] : k \in 0..n}

Column(rows, col) == [i \in DOMAIN rows |-> rows[i][col]]

(* n / d (d # 0) rounded to the nearest integer, ties to the even one: what *)
(* Python's f"{x:.2f}" and numpy's round(1) give on the scaled quotient.    *)
RoundDiv(n, d) ==
    LET nn == IF d < 0 THEN -n ELSE n
        dd == Abs(d)
        q  == nn \div dd
        r  == nn - q * dd
    IN  IF 2 * r < dd THEN q
        ELSE IF 2 * r > dd THEN q + 1
        ELSE IF q % 2 = 0 THEN q ELSE q + 1

(* int(x) of the quotient n / d (d # 0): truncation toward zero.           *)
TruncDiv(n, d) == Sign(n) * Sign(d) * (Abs(n) \div Abs(d))

PosInf == [k |-> "inf", v |-> 0]
NegInf == [k |-> "-inf", v |-> 0]
NaN == [k |-> "nan", v |-> 0]
Num(v) == [k |-> "num", v |-> v]

(* The float n / d scaled by `scale` and rounded: inf, -inf or nan when     *)
(* d = 0, as pandas divides (no ZeroDivisionError is raised).               *)
FloatDiv(n, d, scale) ==
    IF d # 0 THEN Num(RoundDiv(scale * n, d))
    ELSE IF n > 0 THEN PosInf
    ELSE IF n < 0 THEN NegInf
    ELSE NaN

(* Float addition on the same fixed-point scale.                           *)
FloatAdd(a, b) ==
    IF a.k = "nan" \/ b.k = "nan" THEN NaN
    ELSE IF a.k = "num" /\ b.k = "num" THEN Num(a.v + b.v)
    ELSE IF a.k = "num" THEN b
    ELSE IF b.k = "num" THEN a
    ELSE IF a.k = b.k THEN a
    ELSE NaN

(* float <= bound (bound on the same scale); False for nan.                *)
FloatLeq(a, bound) ==
    \/ a.k = "-inf"
    \/ a.k = "num" /\ a.v <= bound

RECURSIVE GCD(_, _)
GCD(a, b) == IF b = 0 THEN a ELSE GCD(b, a % b)

(* The exact quotient n / d (d # 0) in lowest terms with a positive         *)
(* denominator.                                                             *)
Ratio(n, d) ==
    LET g == GCD(Abs(n), Abs(d))
    IN  [k |-> "num", n |-> (Sign(d) * n) \div g, d |-> Abs(d) \div g]

RatioInf == [k |-> "inf", n |-> 0, d |-> 1]
RatioNegInf == [k |-> "-inf", n |-> 0, d |-> 1]
RatioNaN == [k |-> "nan", n |-> 0, d |-> 1]

Op(kind, what) == <<kind, what>>

(* An exception, or "no exception".                                        *)
NoError == [type |-> "none", msg |-> <<>>]
KeyError(msg) == [type |-> "KeyError", msg |-> msg]

(* Adds (or overwrites) one column, cell by cell.                          *)
WithColumn(rows, col, cells) ==
    [i \in DOMAIN rows |->
        [c \in (DOMAIN rows[i]) \cup {col} |->
            IF c = col THEN cells[i] ELSE rows[i][c]]]

(* The first column of `required` (in order) that is not in `columns`;     *)
(* 0 when none is missing.                                                  *)
FirstMissing(required, columns) ==
    IF \A i \in DOMAIN required : required[i] \in columns THEN 0
    ELSE CHOOSE i \in DOMAIN required :
            /\ required[i] \notin columns
            /\ \A j \in 1..(i - 1) : required[j] \in columns

(* The checks a "for col in required: if col not in columns: raise" loop    *)
(* performs: every column up to and including the first missing one.       *)
ChecksDone(required, columns) ==
    LET m == FirstMissing(required, columns)
        last == IF m = 0 THEN Len(required) ELSE m
    IN  [i \in 1..last |-> Op("check", required[i])]

----------------------------------------------------------------------------
(* calculate_required_quantity (src/SDAPro.py 56-64).                      *)

RequiredQuantityColumns == <<"quy sales", "quy", "nds">>

(* required_quantity = quy_sales / sales_duration * storage_duration - quy  *)
raw_required_quantity(quy_sales, quy, sd, st) ==
    IF sd # 0 THEN Ratio(quy_sales * st - quy * sd, sd)
    ELSE \* x / 0 is inf, -inf or (for x = 0) nan; inf * 0 is nan
         IF quy_sales = 0 \/ st = 0 THEN RatioNaN
         ELSE IF Sign(quy_sales) * Sign(st) > 0 THEN RatioInf
         ELSE RatioNegInf

(* np.where(required_quantity > 0, required_quantity, np.nan)              *)
RequiredQuantityCell(quy_sales, quy, sd, st) ==
    LET rq == raw_required_quantity(quy_sales, quy, sd, st)
    IN  IF rq.k = "inf" \/ (rq.k = "num" /\ rq.n > 0) THEN rq ELSE RatioNaN

calculate_required_quantity(columns, rows, sd, st) ==
    IF \E c \in Range(RequiredQuantityColumns) : c \notin columns
    THEN [err |-> KeyError(<<"'quy sales', 'quy', and 'nds' columns are required">>),
          columns |-> columns, rows |-> rows,
          ops |-> <<Op("check", "quy sales, quy, nds")>>]
    ELSE [err |-> NoError,
          columns |-> columns \cup {"Required Quantity"},
          rows |-> WithColumn(rows, "Required Quantity",
                     [i \in DOMAIN rows |->
                        RequiredQuantityCell(rows[i]["quy sales"], rows[i]["quy"], sd, st)]),
          ops |-> <<Op("check", "quy sales, quy, nds"),
                    Op("divide", "sales_duration"),
                    Op("write", "Required Quantity")>>]

----------------------------------------------------------------------------
(* calculate_SDS (src/SDAPro.py 67-86).                                    *)

SDSColumns == <<"quy", "quy sales", "nds", "total sales">>

OutOfStock == [k |-> "o.s", v |-> 0]

(* np.where(quy != 0, (quy_sales / quy).round(1), 'o.s'), in tenths        *)
TurnoverCell(quy_sales, quy) ==
    IF quy # 0 THEN FloatDiv(quy_sales, quy, 10) ELSE OutOfStock

(* np.where(quy_sales != 0, (quy_sales / nds).round(1), 0), in tenths      *)
DailySalesCell(quy_sales, nds) ==
    IF quy_sales # 0 THEN FloatDiv(quy_sales, nds, 10) ELSE Num(0)

(* The strings of the 'Days of Inventory' column: f"{n}D", 'inf', and the   *)
(* two replacement strings.                                                 *)
DaysStr(n) == [k |-> "D", v |-> n]
InfStr == [k |-> "inf", v |-> 0]
Sentinel01D == [k |-> "0.1D", v |-> 0]
SentinelBigD == [k |-> "9999999999.1D", v |-> 0]

(* (quy / daily_sales).apply(lambda x: f"{int(x)}D" if finite else 'inf')  *)
DaysApply(quy, ds) ==
    IF ds.k = "nan" THEN InfStr
    ELSE IF ds.k \in {"inf", "-inf"} THEN DaysStr(0)       \* quy / inf = 0.0
    ELSE IF ds.v = 0 THEN InfStr                            \* quy / 0 = inf or nan
    ELSE DaysStr(TruncDiv(10 * quy, ds.v))

(* .replace('inf', '9999999999.1D').replace('0D', '0.1D'): whole-cell       *)
(* matches, so a computed "0D" is replaced as well.                         *)
ReplaceDays(s) ==
    LET s1 == IF s = InfStr THEN SentinelBigD ELSE s
    IN  IF s1 = DaysStr(0) THEN Sentinel01D ELSE s1

(* np.where(daily_sales != 0, <applied>, '0D') followed by the replaces    *)
DaysOfInventoryCell(quy, ds) ==
    ReplaceDays(IF ds = Num(0) THEN DaysStr(0) ELSE DaysApply(quy, ds))

(* ((total_sales / total) * 100) formatted "{x:.2f}%", in hundredths       *)
SalePercentCell(total_sales, total) == FloatDiv(total_sales, total, 10000)

(* df.sort_values('total sales', ascending=False) with the default          *)
(* kind='quicksort', which is not a stable sort: every arrangement of the  *)
(* row positions that is descending in the column can be the result.       *)
RECURSIVE DescendingOrders(_, _)
DescendingOrders(cells, left) ==
    IF left = {} THEN {<<>>}
    ELSE LET top == {i \in left : \A j \in left : cells[i] >= cells[j]}
         IN  UNION {{<<i>> \o p : p \in DescendingOrders(cells, left \ {i})} : i \in top}

sort_values(rows, col) == DescendingOrders(Column(rows, col), DOMAIN rows)

(* The percents themselves, with no running sum.                           *)
NoCumSum(s, acc) == s

(* Series.cumsum() (skipna): a nan entry stays nan and is left out of the   *)
(* running sum.                                                             *)
RECURSIVE CumSum(_, _)
CumSum(s, acc) ==
    IF s = <<>> THEN <<>>
    ELSE IF s[1].k = "nan" THEN <<NaN>> \o CumSum(Tail(s), acc)
    ELSE <<FloatAdd(acc, s[1])>> \o CumSum(Tail(s), FloatAdd(acc, s[1]))

(* Tier with the boundaries given to the upper tier.                       *)
TierExclusive(cum) ==
    IF cum.k = "-inf" \/ (cum.k = "num" /\ cum.v < 80 * 100) THEN "A"
    ELSE IF cum.k = "num" /\ cum.v < 95 * 100 THEN "B"
    ELSE "C"

(* 'A' if cum <= 80 else 'B' if cum <= 95 else 'C', cum in hundredths      *)
Tier(cum) ==
    IF FloatLeq(cum, 80 * 100) THEN "A"
    ELSE IF FloatLeq(cum, 95 * 100) THEN "B"
    ELSE "C"

(* `order` is the arrangement the sort produced.                           *)
calculate_SDS(columns, rows, sd, st, order) ==
    IF FirstMissing(SDSColumns, columns) # 0
    THEN [err |-> KeyError(<<"column is missing in the input data",
                             SDSColumns[FirstMissing(SDSColumns, columns)]>>),
          columns |-> columns, rows |-> rows,
          ops |-> ChecksDone(SDSColumns, columns)]
    ELSE
    LET n  == Len(rows)
        r1 == WithColumn(rows, "Turnover",
                [i \in 1..n |-> TurnoverCell(rows[i]["quy sales"], rows[i]["quy"])])
        r2 == WithColumn(r1, "Daily Sales",
                [i \in 1..n |-> DailySalesCell(rows[i]["quy sales"], rows[i]["nds"])])
        r3 == WithColumn(r2, "Days of Inventory",
                [i \in 1..n |-> DaysOfInventoryCell(rows[i]["quy"], r2[i]["Daily Sales"])])
        rq == calculate_required_quantity(
                columns \cup {"Turnover", "Daily Sales", "Days of Inventory"}, r3, sd, st)
        total == SumSeq(Column(rows, "total sales"))
        r5 == WithColumn(rq.rows, "total sale percent",
                [i \in 1..n |-> SalePercentCell(rows[i]["total sales"], total)])
        r6 == [i \in 1..n |-> r5[order[i]]]
        cum == CumSum(Column(r6, "total sale percent"), Num(0))
        r7 == WithColumn(r6, "total cum percent", cum)
        r8 == WithColumn(r7, "abc", [i \in 1..n |-> Tier(cum[i])])
    IN  IF rq.err # NoError
        THEN [err |-> rq.err, columns |-> rq.columns, rows |-> rq.rows,
              ops |-> ChecksDone(SDSColumns, columns)
                      \o <<Op("write", "Turnover"), Op("write", "Daily Sales"),
                           Op("write", "Days of Inventory")>> \o rq.ops]
        ELSE [err |-> NoError,
              columns |-> rq.columns \cup {"total sale percent", "total cum percent", "abc"},
              rows |-> r8,
              ops |-> ChecksDone(SDSColumns, columns)
                      \o <<Op("write", "Turnover"), Op("write", "Daily Sales"),
                           Op("write", "Days of Inventory")>> \o rq.ops
                      \o <<Op("divide", "total sales sum"),
                           Op("write", "total sale percent"),
                           Op("sort", "total sales"),
                           Op("write", "total cum percent"), Op("write", "abc")>>]

----------------------------------------------------------------------------
(* process_all_sheets (src/SDAPro.py 9-53).                                *)

SalesColumns == <<"sales date", "quy sales", "code", "item name">>

NaT == <<>>

IsLeap(y) == (y % 4 = 0 /\ y % 100 # 0) \/ y % 400 = 0

DaysInMonth(m, y) ==
    IF m = 2 THEN (IF IsLeap(y) THEN 29 ELSE 28)
    ELSE IF m \in {4, 6, 9, 11} THEN 30 ELSE 31

(* pd.to_datetime(cell, format='%d-%m-%y', errors='coerce'): a cell        *)
(* <<dd, mm, yy>> is the text "dd-mm-yy"; %y maps 00..68 to 20yy and       *)
(* 69..99 to 19yy; a text that is no calendar date becomes NaT.            *)
to_datetime(cell) ==
    LET d == cell[1]
        m == cell[2]
        y == IF cell[3] <= 68 THEN 2000 + cell[3] ELSE 1900 + cell[3]
    IN  IF /\ cell[3] \in 0..99
           /\ m \in 1..12
           /\ d >= 1
           /\ d <= DaysInMonth(m, y)
        THEN <<y, m, d>>
        ELSE NaT

(* pd.concat of the sheets, each with its 'Sheet Name' column added.       *)
RECURSIVE ConcatSheets(_)
ConcatSheets(sheets) ==
    IF sheets = <<>> THEN <<>>
    ELSE WithColumn(sheets[1].rows, "Sheet Name",
                    [i \in DOMAIN sheets[1].rows |-> sheets[1].name])
         \o ConcatSheets(Tail(sheets))

(* The order of item names under string comparison.                        *)
ItemNames == <<"Bolt", "Nut">>
NameRank(name) == CHOOSE i \in DOMAIN ItemNames : ItemNames[i] = name

KeyLess(a, b) ==
    \/ a[1] < b[1]
    \/ a[1] = b[1] /\ NameRank(a[2]) < NameRank(b[2])

(* The elements of a set of group keys, ascending (groupby sorts keys).    *)
RECURSIVE SortedKeys(_)
SortedKeys(keys) ==
    IF keys = {} THEN <<>>
    ELSE LET least == CHOOSE a \in keys : \A b \in keys \ {a} : KeyLess(a, b)
         IN  <<least>> \o SortedKeys(keys \ {least})

(* all_data.groupby(['code', 'item name']) with the three aggregates        *)
(* 'quy sales'.sum(), 'sales date'.count(), 'sales date'.nunique().         *)
GroupKey(row) == <<row["code"], row["item name"]>>

groupby_item(rows) ==
    LET keys == SortedKeys({GroupKey(rows[i]) : i \in DOMAIN rows})
        Group(key) == SelectSeq(rows, LAMBDA r : GroupKey(r) = key)
    IN  [g \in DOMAIN keys |->
            LET grp == Group(keys[g])
            IN  [code |-> keys[g][1],
                 item_name |-> keys[g][2],
                 quy_sales |-> SumSeq(Column(grp, "quy sales")),
                 Sales_Transactions |-> Len(grp),
                 Sales_Days |-> Cardinality(Range(Column(grp, "sales date")))]]

(* all_data['sales date'].isna().sum()                                      *)
isna_sum(rows, col) == Cardinality({i \in DOMAIN rows : rows[i][col] = NaT})

(* dropna whose result is not assigned back: every row stays.               *)
dropna_discarded(rows, col) == rows

(* all_data.dropna(subset=[col])                                            *)
dropna(rows, col) == SelectSeq(rows, LAMBDA r : r[col] # NaT)

(* if invalid_dates_count > 0: st.warning(f"{invalid_dates_count} rows ...") *)
InvalidDatesWarning(invalid_dates_count) ==
    IF invalid_dates_count > 0 THEN <<invalid_dates_count>> ELSE <<>>

NoResults == [Sales_Days |-> 0, Sales_Transactions |-> 0, Total_Quantity_Sold |-> 0]

process_all_sheets(sheets) ==
    LET columns0 == UNION {sheets[i].columns : i \in DOMAIN sheets} \cup {"Sheet Name"}
        concat   == ConcatSheets(sheets)
        added    == <<Op("write", "Sheet Name")>>
        Failed(err, done) ==
            [err |-> err, warnings |-> <<>>, results_df |-> NoResults,
             results_by_item |-> <<>>, all_data |-> <<>>, ops |-> done]
    IN  IF "sales date" \notin columns0
        THEN \* all_data['sales date'] raises pandas' own KeyError
             Failed(KeyError(<<"sales date">>), added \o <<Op("read", "sales date")>>)
        ELSE
        LET converted == WithColumn(concat, "sales date",
                            [i \in DOMAIN concat |-> to_datetime(concat[i]["sales date"])])
            done1 == added \o <<Op("read", "sales date"), Op("write", "sales date")>>
            missing == FirstMissing(SalesColumns, columns0)
        IN  IF missing # 0
            THEN Failed(KeyError(<<"Missing required column", SalesColumns[missing]>>),
                        done1 \o ChecksDone(SalesColumns, columns0))
            ELSE
            LET invalid_dates_count == isna_sum(converted, "sales date")
                all_data == dropna(converted, "sales date")
            IN  [err |-> NoError,
                 warnings |-> InvalidDatesWarning(invalid_dates_count),
                 results_df |->
                    [Sales_Days |-> Cardinality(Range(Column(all_data, "sales date"))),
                     Sales_Transactions |-> Len(all_data),
                     Total_Quantity_Sold |-> SumSeq(Column(all_data, "quy sales"))],
                 results_by_item |-> groupby_item(all_data),
                 all_data |-> all_data,
                 ops |-> done1 \o ChecksDone(SalesColumns, columns0)]

----------------------------------------------------------------------------
(* The uploaded workbooks.  A workbook is the sequence of its sheets; all   *)
(* sheets of one workbook have the same header row.                         *)

NoFile == <<>>

Sheet(name, columns, rows) == [name |-> name, columns |-> columns, rows |-> rows]

Restrict(row, columns) == [c \in columns |-> row[c]]

StockRow(code, quy, quy_sales, nds, total_sales) ==
    ("code" :> code) @@ ("quy" :> quy) @@ ("quy sales" :> quy_sales) @@ ("nds" :> nds)
        @@ ("total sales" :> total_sales)

SalesRow(sales_date, quy_sales, code, item_name) ==
    ("sales date" :> sales_date) @@ ("quy sales" :> quy_sales) @@ ("code" :> code)
        @@ ("item name" :> item_name)

TotalSalesVals == {-50, 0, 50, 150, 300, 500}
QuyVals == {0, 1, 5}
QuySalesVals == {0, 1, 2, 10}
NdsVals == {0, 1, 4, 100}
SalesDurations == {-1, 0, 2}
StorageDurations == {0, 1}

StockColumns == Range(SDSColumns) \cup {"code"}

(* Tables that vary 'total sales' (the ABC classification); the item code   *)
(* is the row's position in the sheet ...                                    *)
ABCTables ==
    {[i \in DOMAIN ts |-> StockRow(i, 1, 1, 1, ts[i])] :
        ts \in SeqsUpTo(TotalSalesVals, MaxStockRows)}

(* ... and tables that vary the stock figures (the per-row metrics).        *)
MetricTables ==
    UNION {[1..k -> {[quy |-> q, quy_sales |-> s, nds |-> n] :
                        q \in QuyVals, s \in QuySalesVals, n \in NdsVals}] :
            k \in 1..MaxMetricRows}

MetricRows(t) == [i \in DOMAIN t |-> StockRow(i, t[i].quy, t[i].quy_sales, t[i].nds, 100)]

ABCFiles == {<<Sheet("Sheet1", StockColumns, rows)>> : rows \in ABCTables}

MetricFiles == {<<Sheet("Sheet1", StockColumns, MetricRows(t))>> : t \in MetricTables}

(* Stock workbooks with one or more of the required columns left out.       *)
MalformedStockFiles ==
    {<<Sheet("Sheet1", cols \cup {"code"},
              <<Restrict(StockRow(1, 1, 2, 1, 100), cols \cup {"code"})>>)>> :
        cols \in (SUBSET Range(SDSColumns)) \ {Range(SDSColumns)}}

(* "01-02-24", "02-02-24" and "30-02-24" (no such day).                     *)
RawDates == {<<1, 2, 24>>, <<2, 2, 24>>, <<30, 2, 24>>}
Codes == {1, 2}

(* Sales tables; the quantity sold of a row is its position in the          *)
(* workbook, so that every row weighs differently in the sums.              *)
SalesTables ==
    UNION {{[i \in 1..n |-> SalesRow(t[i].d, i, t[i].c, t[i].nm)] :
              t \in [1..n -> [d : RawDates, c : Codes, nm : Range(ItemNames)]]} :
            n \in 0..MaxSalesRows}

(* One sheet, or the rows split over two sheets.                            *)
SalesFiles ==
    {<<Sheet("Sheet1", Range(SalesColumns), <<>>)>>}
    \cup UNION {
        {IF k = Len(rows)
         THEN <<Sheet("Sheet1", Range(SalesColumns), rows)>>
         ELSE <<Sheet("Sheet1", Range(SalesColumns), SubSeq(rows, 1, k)),
                Sheet("Sheet2", Range(SalesColumns), SubSeq(rows, k + 1, Len(rows)))>> :
            k \in 1..Len(rows)} :
        rows \in SalesTables \ {<<>>}}

MalformedSalesFiles ==
    {<<Sheet("Sheet1", cols, <<Restrict(SalesRow(<<1, 2, 24>>, 1, 1, "Bolt"), cols)>>)>> :
        cols \in (SUBSET Range(SalesColumns)) \ {{}, Range(SalesColumns)}}

----------------------------------------------------------------------------
(* main (src/SDAPro.py 89-152): the Streamlit page.  Every interaction      *)
(* reruns the script; what a run displays is `shown`, and `ops` is the      *)
(* sequence of table operations the pipeline of that run performed.         *)

Options == {"Sales Data Analysis", "Stock Control"}

Nothing ==
    [kind |-> "none", err |-> NoError, warnings |-> <<>>, results_df |-> NoResults,
     results_by_item |-> <<>>, table |-> <<>>]

(* The two number_input widgets exist only in the Stock Control branch of   *)
(* a run that has a file, and start at 0.                                    *)
DurationsRendered(option, f) == f # NoFile /\ option = "Stock Control"

Init ==
    /\ selected_option = "Sales Data Analysis"
    /\ file = NoFile
    /\ sales_duration = 0
    /\ storage_duration = 0
    /\ shown = Nothing
    /\ ops = <<>>

KeepDurations(option, f) ==
    IF DurationsRendered(option, f) /\ DurationsRendered(selected_option, file)
    THEN /\ sales_duration' = sales_duration
         /\ storage_duration' = storage_duration
    ELSE /\ sales_duration' = 0
         /\ storage_duration' = 0

SelectOption(option) ==
    /\ option # selected_option
    /\ selected_option' = option
    /\ KeepDurations(option, file)
    /\ shown' = Nothing
    /\ ops' = <<>>
    /\ UNCHANGED file

UploadFile(f) ==
    /\ file = NoFile
    /\ file' = f
    /\ KeepDurations(selected_option, f)
    /\ shown' = Nothing
    /\ ops' = <<>>
    /\ UNCHANGED selected_option

RemoveFile ==
    /\ file # NoFile
    /\ file' = NoFile
    /\ KeepDurations(selected_option, NoFile)
    /\ shown' = Nothing
    /\ ops' = <<>>
    /\ UNCHANGED selected_option

EnterSalesDuration(d) ==
    /\ DurationsRendered(selected_option, file)
    /\ d # sales_duration
    /\ sales_duration' = d
    /\ shown' = Nothing
    /\ ops' = <<>>
    /\ UNCHANGED <<selected_option, file, storage_duration>>

EnterStorageDuration(d) ==
    /\ DurationsRendered(selected_option, file)
    /\ d # storage_duration
    /\ storage_duration' = d
    /\ shown' = Nothing
    /\ ops' = <<>>
    /\ UNCHANGED <<selected_option, file, sales_duration>>

(* RUN under "Sales Data Analysis": lines 104-137.                          *)
RunSalesAnalysis ==
    /\ file # NoFile
    /\ selected_option = "Sales Data Analysis"
    /\ LET r == process_all_sheets(file)
       IN  /\ shown' = IF r.err = NoError
                       THEN [kind |-> "st.dataframe", err |-> NoError,
                             warnings |-> r.warnings, results_df |-> r.results_df,
                             results_by_item |-> r.results_by_item, table |-> r.all_data]
                       ELSE [Nothing EXCEPT !.kind = "st.error", !.err = r.err]
           /\ ops' = r.ops
    /\ UNCHANGED <<selected_option, file, sales_duration, storage_duration>>

(* RUN under "Stock Control": lines 139-148; pd.read_excel reads the first  *)
(* sheet.                                                                    *)
RunStockControl ==
    /\ file # NoFile
    /\ selected_option = "Stock Control"
    /\ LET df == file[1]
       IN  \E order \in (IF "total sales" \in df.columns
                         THEN sort_values(df.rows, "total sales") ELSE {<<>>}) :
              LET r == calculate_SDS(df.columns, df.rows, sales_duration,
                                     storage_duration, order)
              IN  /\ shown' = IF r.err = NoError
                              THEN [Nothing EXCEPT !.kind = "st.write", !.table = r.rows]
                              ELSE [Nothing EXCEPT !.kind = "st.warning", !.err = r.err]
                  /\ ops' = r.ops
    /\ UNCHANGED <<selected_option, file, sales_duration, storage_duration>>

UploadABCFile == \E f \in ABCFiles \cup MalformedStockFiles : UploadFile(f)

UploadMetricFile == \E f \in MetricFiles \cup MalformedStockFiles : UploadFile(f)

UploadSalesFile == \E f \in SalesFiles \cup MalformedSalesFiles : UploadFile(f)

ChooseOption == \E option \in Options : SelectOption(option)

EnterDurations ==
    \/ \E d \in SalesDurations : EnterSalesDuration(d)
    \/ \E d \in StorageDurations : EnterStorageDuration(d)

NextABC ==
    \/ ChooseOption
    \/ UploadABCFile
    \/ RemoveFile
    \/ RunStockControl

NextStock ==
    \/ ChooseOption
    \/ UploadMetricFile
    \/ RemoveFile
    \/ EnterDurations
    \/ RunStockControl

NextSales ==
    \/ ChooseOption
    \/ UploadSalesFile
    \/ RemoveFile
    \/ RunSalesAnalysis

(* Stock Control over workbooks that vary 'total sales', with the duration  *)
(* inputs left at their defaults: the ABC classification.                   *)
SpecABC == Init /\ [][NextABC]_vars

(* Stock Control over workbooks that vary the stock figures, with the       *)
(* durations entered: the per-row metrics.                                  *)
SpecStock == Init /\ [][NextStock]_vars

(* Sales Data Analysis over sales workbooks.                                *)
SpecSales == Init /\ [][NextSales]_vars

----------------------------------------------------------------------------
(* Properties.                                                              *)

(* The table given to the pipeline and the table it returned.               *)
Input == IF file = NoFile THEN <<>> ELSE file[1].rows
Output == shown.table
StockReturned == shown.kind = "st.write"
GrandTotal == SumSeq(Column(Input, "total sales"))

TierRank(t) == CASE t = "A" -> 1 [] t = "B" -> 2 [] t = "C" -> 3

Descending(rows, col) ==
    \A i \in 1..(Len(rows) - 1) : rows[i][col] >= rows[i + 1][col]

(* p is x / total * 100 to the nearest hundredth                            *)
NearestPercent(p, x, total) == 2 * Abs(10000 * x - p * total) <= Abs(total)

(* C1: with a nonzero grand total, every returned row's tier is A when the  *)
(* running sum (in descending 'total sales' order) of the 2-decimal sale    *)
(* percents is <= 80.00, B when it is <= 95.00 and C otherwise; total sales *)
(* [500, 300, 150, 50] give cumulative percents [50, 80, 95, 100] and       *)
(* tiers [A, A, B, C].                                                       *)
C1_TierByCumulativePercent ==
    (StockReturned /\ GrandTotal # 0) =>
        /\ Descending(Output, "total sales")
        /\ \A i \in DOMAIN Output :
              LET pct == Output[i]["total sale percent"]
                  cum == SumSeq([j \in 1..i |-> Output[j]["total sale percent"].v])
              IN  /\ pct.k = "num"
                  /\ NearestPercent(pct.v, Output[i]["total sales"], GrandTotal)
                  /\ Output[i]["total cum percent"] = Num(cum)
                  /\ Output[i]["abc"] = (IF cum <= 8000 THEN "A"
                                         ELSE IF cum <= 9500 THEN "B" ELSE "C")
        /\ Column(Input, "total sales") = <<500, 300, 150, 50>> =>
              /\ Column(Output, "total cum percent")
                    = <<Num(5000), Num(8000), Num(9500), Num(10000)>>
              /\ Column(Output, "abc") = <<"A", "A", "B", "C">>

C1_Witness ==
    /\ StockReturned
    /\ Column(Input, "total sales") = <<500, 300, 150, 50>>
    /\ Column(Output, "abc") = <<"A", "A", "B", "C">>

(* C2: in every returned table, read in the returned order (descending      *)
(* 'total sales'), the tiers are A's, then B's, then C's: no B or C comes   *)
(* before an A and no C before a B.                                          *)
C2_TiersArePrefixes ==
    StockReturned =>
        /\ Descending(Output, "total sales")
        /\ \A i, j \in DOMAIN Output :
              i < j => TierRank(Output[i]["abc"]) <= TierRank(Output[j]["abc"])

C2_Witness ==
    /\ StockReturned
    /\ {Output[i]["abc"] : i \in DOMAIN Output} = {"A", "B", "C"}
    /\ Column(Input, "total sales") # Column(Output, "total sales")

(* C3: the sort is stable: of two rows with equal 'total sales', the one    *)
(* that came first in the input (the lower code) comes first in the output. *)
C3_SortIsStable ==
    StockReturned =>
        \A i, j \in DOMAIN Output :
            (i < j /\ Output[i]["total sales"] = Output[j]["total sales"])
                => Output[i]["code"] < Output[j]["code"]

(* C7: when the grand total of 'total sales' is zero the classification     *)
(* fails instead of returning a table: no row is returned whose percents    *)
(* and tier come from a division by a zero total.                            *)
C7_ZeroTotalFails ==
    (StockReturned /\ Len(Output) > 0) => GrandTotal # 0

(* Whether an operation other than a column check is in `done`.             *)
TouchesTable(done) == \E k \in DOMAIN done : done[k][1] # "check"

(* C5: at both entry points a missing required column aborts the stage      *)
(* with an error naming the first missing column in the declared order,     *)
(* raised before any other operation reads, transforms or adds a column.    *)
C5_MissingColumnCheckedFirst ==
    shown.err.type = "KeyError" =>
        LET required == IF selected_option = "Stock Control"
                        THEN SDSColumns ELSE SalesColumns
            columns  == UNION {file[i].columns : i \in DOMAIN file}
            missing  == FirstMissing(required, columns)
        IN  /\ missing # 0
            /\ shown.err.msg[Len(shown.err.msg)] = required[missing]
            /\ ~TouchesTable(ops)

(* C6: with sales_duration <= 0 calculate_SDS fails before any row is       *)
(* processed: no metric column is written and nothing is divided by         *)
(* sales_duration.                                                           *)
C6_NonPositiveSalesDurationFails ==
    (/\ shown.kind \in {"st.write", "st.warning"}
     /\ FirstMissing(SDSColumns, file[1].columns) = 0
     /\ sales_duration <= 0)
        => (shown.kind = "st.warning" /\ ~TouchesTable(ops))

(* C9: with positive durations and raw = quy_sales / sales_duration *       *)
(* storage_duration - quy, 'Required Quantity' is raw when raw > 0, is 0    *)
(* (max(0, raw), not the not-applicable marker) when raw = 0, and is the    *)
(* not-applicable marker when raw < 0.                                       *)
C9_ZeroNeedDiffersFromSurplus ==
    (StockReturned /\ sales_duration > 0 /\ storage_duration > 0) =>
        \A i \in DOMAIN Output :
            LET scaled == Output[i]["quy sales"] * storage_duration
                            - Output[i]["quy"] * sales_duration
                rq == Output[i]["Required Quantity"]
            IN  /\ scaled > 0 => (rq.k = "num" /\ rq.n * sales_duration = scaled * rq.d)
                /\ scaled = 0 => (rq.k = "num" /\ rq.n = 0)
                /\ scaled < 0 => rq.k = "nan"

(* C10: 'Days of Inventory' is "0.1D" when Daily Sales = 0, and is the       *)
(* integer part of quy / Daily Sales followed by "D" (also "0D") when Daily *)
(* Sales # 0 and the ratio is finite; "0.1D" appears only with Daily Sales  *)
(* = 0 and "9999999999.1D" only with an undefined or infinite ratio.        *)
(* Stated for the rows with nds > 0, whose Daily Sales is finite.           *)
C10_DaysOfInventorySentinels ==
    StockReturned =>
        \A i \in {k \in DOMAIN Output : Output[k]["nds"] > 0} :
            LET ds  == Output[i]["Daily Sales"]
                doi == Output[i]["Days of Inventory"]
            IN  /\ ds = Num(0) => doi = Sentinel01D
                /\ (ds.k = "num" /\ ds.v # 0)
                      => doi = DaysStr(TruncDiv(10 * Output[i]["quy"], ds.v))
                /\ doi = Sentinel01D => ds = Num(0)
                /\ doi = SentinelBigD => (ds.k = "nan" \/ ds = Num(0))

(* The rows of all sheets of the uploaded workbook, in order.               *)
RECURSIVE AllRows(_)
AllRows(sheets) ==
    IF sheets = <<>> THEN <<>> ELSE sheets[1].rows \o AllRows(Tail(sheets))

SalesReturned == shown.kind = "st.dataframe"
ValidRows == SelectSeq(AllRows(file), LAMBDA r : to_datetime(r["sales date"]) # NaT)
DistinctDates(rows) == {to_datetime(rows[i]["sales date"]) : i \in DOMAIN rows}

(* C4: results_by_item has exactly one row for each distinct code among     *)
(* the valid-date rows, and its 'Sales Days' is the number of distinct      *)
(* dates among the valid-date rows of that code, whatever the item names.   *)
C4_OneRowPerCode ==
    SalesReturned =>
        LET codes == {ValidRows[i]["code"] : i \in DOMAIN ValidRows}
            items == shown.results_by_item
        IN  /\ Len(items) = Cardinality(codes)
            /\ \A c \in codes :
                  \E g \in DOMAIN items :
                      /\ items[g].code = c
                      /\ items[g].Sales_Days
                            = Cardinality(DistinctDates(
                                SelectSeq(ValidRows, LAMBDA r : r["code"] = c)))

(* C8: every row whose date does not parse is left out of all_data and of   *)
(* every aggregate, every row whose date parses is kept, and a warning      *)
(* carrying the number of dropped rows is emitted exactly when it is > 0.   *)
C8_InvalidDatesDroppedAndCounted ==
    SalesReturned =>
        LET dropped == Len(AllRows(file)) - Len(ValidRows)
            items == shown.results_by_item
        IN  /\ Len(shown.table) = Len(ValidRows)
            /\ \A i \in DOMAIN ValidRows :
                  /\ shown.table[i]["sales date"] = to_datetime(ValidRows[i]["sales date"])
                  /\ shown.table[i]["sales date"] # NaT
                  /\ \A c \in {"quy sales", "code", "item name"} :
                        shown.table[i][c] = ValidRows[i][c]
            /\ shown.results_df.Sales_Transactions = Len(ValidRows)
            /\ shown.results_df.Sales_Days = Cardinality(DistinctDates(ValidRows))
            /\ shown.results_df.Total_Quantity_Sold = SumSeq(Column(ValidRows, "quy sales"))
            /\ SumSeq([g \in DOMAIN items |-> items[g].Sales_Transactions]) = Len(ValidRows)
            /\ SumSeq([g \in DOMAIN items |-> items[g].quy_sales])
                  = SumSeq(Column(ValidRows, "quy sales"))
            /\ shown.warnings = (IF dropped > 0 THEN <<dropped>> ELSE <<>>)

C8_Witness ==
    /\ SalesReturned
    /\ Len(AllRows(file)) = 2
    /\ Len(shown.table) = 1
    /\ shown.warnings = <<1>>

====
